---------------------------- MODULE Spec2Model ----------------------------
(***************************************************************************)
(* A model of src/app.py (Crypto BD Hunter): the fingerprint extractor,    *)
(* the waterfall query planner, the search executor, the URL normalizer    *)
(* and the button handler that chains them.                                *)
(*                                                                         *)
(* Python strings are TLA+ strings; TLC evaluates Len, SubSeq, Head, Tail  *)
(* and \o on them.  A Python value that may be None is a record            *)
(* [t |-> "None" | "str" | "int", v |-> <string>].                         *)
(***************************************************************************)
EXTENDS Integers, Sequences, FiniteSets, TLC

(***************************************************************************)
(* Python string primitives                                                *)
(***************************************************************************)

None == [t |-> "None", v |-> ""]
Str(s) == [t |-> "str", v |-> s]
NonStr == [t |-> "int", v |-> ""]

\* bool(x) of an optional string: None and "" are falsy
Truthy(o) == o.t = "int" \/ (o.t = "str" /\ o.v # "")

CharAt(s, i) == SubSeq(s, i, i)

\* sub in s
Contains(s, sub) ==
  \E i \in 1..(Len(s) - Len(sub) + 1) : SubSeq(s, i, i + Len(sub) - 1) = sub

\* s.find(sub) + 1 : the 1-based index of the first occurrence, 0 when absent
Find(s, sub) ==
  IF Contains(s, sub)
  THEN CHOOSE i \in 1..(Len(s) - Len(sub) + 1) :
         /\ SubSeq(s, i, i + Len(sub) - 1) = sub
         /\ \A j \in 1..(i - 1) : SubSeq(s, j, j + Len(sub) - 1) # sub
  ELSE 0

\* s.rfind(sub) + 1
RFind(s, sub) ==
  IF Contains(s, sub)
  THEN CHOOSE i \in 1..(Len(s) - Len(sub) + 1) :
         /\ SubSeq(s, i, i + Len(sub) - 1) = sub
         /\ \A j \in (i + 1)..(Len(s) - Len(sub) + 1) :
              SubSeq(s, j, j + Len(sub) - 1) # sub
  ELSE 0

StartsWith(s, p) == Len(p) <= Len(s) /\ SubSeq(s, 1, Len(p)) = p

UpperAlpha == "ABCDEFGHIJKLMNOPQRSTUVWXYZ"
LowerAlpha == "abcdefghijklmnopqrstuvwxyz"

UpperToLower ==
  [c \in {CharAt(UpperAlpha, i) : i \in 1..26} |->
     CharAt(LowerAlpha, Find(UpperAlpha, c))]

LowerChar(c) == IF c \in DOMAIN UpperToLower THEN UpperToLower[c] ELSE c

\* s.lower()
RECURSIVE Lower(_)
Lower(s) == IF s = "" THEN "" ELSE LowerChar(Head(s)) \o Lower(Tail(s))

Whitespace == {" ", "\t", "\n", "\r"}

RECURSIVE LStripWs(_)
LStripWs(s) ==
  IF s # "" /\ Head(s) \in Whitespace THEN LStripWs(Tail(s)) ELSE s

RECURSIVE RStripWs(_)
RStripWs(s) ==
  IF s # "" /\ CharAt(s, Len(s)) \in Whitespace
  THEN RStripWs(SubSeq(s, 1, Len(s) - 1))
  ELSE s

\* s.strip()
Strip(s) == RStripWs(LStripWs(s))

\* s.rstrip(c) for a one-character c
RECURSIVE RStripChar(_, _)
RStripChar(s, c) ==
  IF s # "" /\ CharAt(s, Len(s)) = c
  THEN RStripChar(SubSeq(s, 1, Len(s) - 1), c)
  ELSE s

\* s.split(sep)[0]
SplitFirst(s, sep) ==
  IF Contains(s, sep) THEN SubSeq(s, 1, Find(s, sep) - 1) ELSE s

\* s.split(sep)[-1]
SplitLast(s, sep) ==
  IF Contains(s, sep)
  THEN SubSeq(s, RFind(s, sep) + Len(sep), Len(s))
  ELSE s

\* s.replace(old, "")
RECURSIVE Remove(_, _)
Remove(s, old) ==
  IF Len(s) < Len(old) THEN s
  ELSE IF StartsWith(s, old)
       THEN Remove(SubSeq(s, Len(old) + 1, Len(s)), old)
       ELSE Head(s) \o Remove(Tail(s), old)

(***************************************************************************)
(* 2. Fingerprint extractor                                                *)
(***************************************************************************)

\* lines 72-75: the handle of a clue that mentions the social platform
HandleOf(item) ==
  LET clean_url == RStripChar(SplitFirst(item, "?"), "/")
      handle    == SplitLast(clean_url, "/")
  IN  handle

\* lines 83-87: the domain of a dotted clue
DomainOf(item) ==
  LET clean_url == SplitFirst(Remove(Remove(item, "https://"), "http://"), "/")
  IN  IF StartsWith(clean_url, "www.")
      THEN SubSeq(clean_url, 5, Len(clean_url))
      ELSE clean_url

\* lines 63-89: one iteration of the loop over the two inputs
DetectItem(fingerprints, raw) ==
  IF raw = "" THEN fingerprints
  ELSE LET item == Lower(Strip(raw)) IN
    IF Contains(item, "x.com") \/ Contains(item, "twitter.com")
    THEN IF HandleOf(item) # ""
         THEN [fingerprints EXCEPT !.twitter_handle = Str(HandleOf(item))]
         ELSE fingerprints
    ELSE IF Contains(item, ".") /\ ~Contains(item, "linkedin")
         THEN [fingerprints EXCEPT !.domain = Str(DomainOf(item))]
         ELSE fingerprints

\* lines 51-91
auto_detect_fingerprints(in_website, in_twitter) ==
  DetectItem(DetectItem([twitter_handle |-> None, domain |-> None], in_website),
             in_twitter)


(***************************************************************************)
(* 3. Waterfall query planner                                              *)
(***************************************************************************)

base_context == "crypto OR blockchain OR web3 OR exchange OR token"
negative_filter == "-restaurant -steakhouse -chef -menu -food -dining -recipe"

\* lines 105-108
Roles(cat) ==
  IF cat = "VC" THEN "Partner OR Investor"
  ELSE "Founder OR CEO OR CMO OR \"Head of Listing\" OR \"Head of BD\""

\* lines 112-114
HandleQueries(f) ==
  IF Truthy(f.twitter_handle)
  THEN << "site:linkedin.com \"@" \o f.twitter_handle.v \o "\"",
          "site:linkedin.com \"" \o f.twitter_handle.v \o "\"" >>
  ELSE << >>

\* lines 116-117
DomainQueries(f, cat) ==
  IF Truthy(f.domain)
  THEN << "site:linkedin.com \"" \o f.domain.v \o "\" " \o Roles(cat) >>
  ELSE << >>

\* lines 121-122
NameQueries(project_name, cat) ==
  << "site:linkedin.com/in/ \"" \o project_name \o "\" " \o base_context
       \o " " \o Roles(cat) \o " " \o negative_filter,
     "site:linkedin.com/company/ \"" \o project_name \o "\" " \o base_context >>

\* line 125
FallbackQueries(project_name) ==
  << "\"" \o project_name \o "\" " \o base_context
       \o " team listing contact " \o negative_filter >>

\* Mutant: the domain-anchored tier is appended before the handle-anchored one.
generate_waterfall_queries_DomainFirst(project_name, cat, f) ==
  DomainQueries(f, cat) \o HandleQueries(f)
    \o NameQueries(project_name, cat) \o FallbackQueries(project_name)

\* lines 97-127
generate_waterfall_queries(project_name, cat, f) ==
  HandleQueries(f) \o DomainQueries(f, cat)
    \o NameQueries(project_name, cat) \o FallbackQueries(project_name)

(***************************************************************************)
(* 4. URL normalizer                                                       *)
(***************************************************************************)

\* lines 165-174
normalize_url(u) ==
  IF ~Truthy(u) \/ u.t # "str" THEN None
  ELSE LET s == Strip(u.v) IN
    IF Len(s) < 5 \/ Contains(Lower(s), "none") \/ Contains(Lower(s), "n/a")
    THEN None
    ELSE IF ~StartsWith(s, "http") THEN Str("https://" \o s) ELSE Str(s)

(***************************************************************************)
(* 3b. Search executor: the per-result filter                              *)
(***************************************************************************)

\* Mutant: the denylist looks at the title alone.
DenylistedTitleOnly(r) ==
  LET content_lower == Lower(r.title) IN
    \/ Contains(content_lower, "steak")
    \/ Contains(content_lower, "restaurant")
    \/ Contains(content_lower, "menu")

\* lines 146-148: the food-service denylist over title+content
Denylisted(r) ==
  LET content_lower == Lower(r.title \o r.content) IN
    \/ Contains(content_lower, "steak")
    \/ Contains(content_lower, "restaurant")
    \/ Contains(content_lower, "menu")

\* Mutant: the seen-url test is dropped.
IsNewUrlAlways(r, seen) == TRUE

\* line 150
IsNewUrl(r, seen) == r.url \notin seen

\* lines 146-152: whether result r is appended to all_results
Accepted(r, seen) == ~Denylisted(r) /\ IsNewUrl(r, seen)

\* Mutant: no except clause, the exception leaves the function.
QueryFailureAborts(i) == [pc |-> "raised", qi |-> i]

\* lines 154-155: the except clause logs and the for loop moves on
QueryFailureHandler(i) == [pc |-> "loop", qi |-> i + 1]


\* Mutant: the analyzer is called whatever the search returned.
HasEvidenceAlways(raw) == TRUE

\* line 280: if raw_data
HasEvidence(raw) == raw # << >>

(***************************************************************************)
(* State                                                                   *)
(***************************************************************************)

VARIABLES
  pc,               \* position in the run
  target_project,   \* line 245
  category,         \* line 247
  input_twitter,    \* line 253
  input_website,    \* line 256
  fps,              \* line 265
  queries,          \* line 274
  web,              \* the results the search capability can return
  qi,               \* index of the query the for loop of line 134 is at
  pending,          \* results of the current response not yet iterated
  all_results,      \* line 130
  seen_urls,        \* line 131
  raw_data,         \* line 275
  ai_result,        \* lines 278, 282
  analyzer_calls,   \* calls of analyze_with_deepseek
  ui,               \* what the page shows
  df_team,          \* line 291
  df_contacts,      \* line 312
  export_data,      \* line 329
  url,              \* argument of normalize_url
  url_out,          \* its result
  issued,           \* history: queries handed to tavily.search, in order
  first_failed,     \* history: index of the first query that raised, 0 if none
  kept_at_failure,  \* history: all_results when that query raised
  occurrences,      \* history: per url, times returned (counted up to 2)
  first_returned,   \* history: per url, the first result returned with it
  first_accepted    \* history: per url, the first result returned with it
                    \* that the denylist lets through

vars == << pc, target_project, category, input_twitter, input_website, fps,
           queries, web, qi, pending, all_results, seen_urls, raw_data,
           ai_result, analyzer_calls, ui, df_team, df_contacts, export_data,
           url, url_out, issued, first_failed, kept_at_failure, occurrences,
           first_returned, first_accepted >>

inputVars == << target_project, category, input_twitter, input_website >>
execVars  == << qi, pending, all_results, seen_urls >>
histVars  == << issued, first_failed, kept_at_failure, occurrences,
                first_returned, first_accepted >>
viewVars  == << df_team, df_contacts, export_data >>
normVars  == << url, url_out >>

(***************************************************************************)
(* Bounds and input sets                                                   *)
(***************************************************************************)

MaxQueries == 3
MaxResults == 2
MaxRows == 1

NoFingerprints == [twitter_handle |-> None, domain |-> None]
NoResult == [some |-> FALSE, team |-> << >>, contacts |-> << >>]

\* clues assembled as scheme + www + host + path
ClueSchemes == {"", "https://", " HTTP://"}
ClueWww == {"", "www."}
ClueHosts == {"", "x.com", "twitter.com", "weex.com", "monad.xyz", "linkedin.com"}
CluePaths == {"", "/", "/Weex_Official", "/in/a.b?s=20 "}
Clues ==
  {s \o w \o h \o p_ : s \in ClueSchemes, w \in ClueWww, h \in ClueHosts,
                       p_ \in CluePaths}

RunClues == {"", "https://x.com/Weex_Official", "weex.com"}
Projects == {"", "Weex"}
Categories == {"Project", "VC", "Exchange"}

PlanProjects == {"Weex", "Monad", "Fogo de Chao"}
PlanHandles == {None, Str(""), Str("weex_official"), Str("@weex")}
PlanDomains == {None, Str(""), Str("weex.com"), Str("monad.xyz")}

Urls == {"https://linkedin.com/in/ann", "https://x.com/weex"}
Titles == {"Weex CEO", "Fogo Me"}
Contents == {" on crypto", "NU and Steak"}
Items == [url : Urls, title : Titles, content : Contents]
RunWebs ==
  { {},
    {[url |-> "https://linkedin.com/in/ann", title |-> "Weex CEO",
      content |-> " on crypto"]},
    {[url |-> "https://x.com/weex", title |-> "Fogo Me",
      content |-> "NU and Steak"]} }

\* what the backend puts in a link field: the prompt of line 214 asks for
\* "URL/N/A"
Members == [name : {"Ann"}, role : {"CEO"},
            linkedin : {Str("N/A"), Str("linkedin.com/in/ann")},
            twitter : {Str("x.com/ann")}]
ContactRows == [type : {"Telegram"}, note : {"listing"},
                value : {None, Str("https://t.me/weex")}]

SeqsUpTo(S, n) == UNION {[1..k -> S] : k \in 0..n}

AIResults ==
  [some : {TRUE}, team : SeqsUpTo(Members, MaxRows),
   contacts : SeqsUpTo(ContactRows, MaxRows)]

UrlPads == {"", " "}
UrlSchemes == {"", "https://", "http://", "ftp://", "HTTPS://"}
UrlBodies == {"", "a.b", "x.co", "httpbin.org/x", "example.com/x", "N/A",
              "none", "xNoNe.io"}
UrlInputs ==
  {None, NonStr} \cup
  {Str(a \o s \o b \o z) : a \in UrlPads, s \in UrlSchemes, b \in UrlBodies,
                           z \in UrlPads}

(***************************************************************************)
(* Initial states                                                          *)
(***************************************************************************)

InitCommon ==
  /\ raw_data = << >>
  /\ ai_result = NoResult
  /\ analyzer_calls = 0
  /\ ui = {}
  /\ df_team = << >>
  /\ df_contacts = << >>
  /\ export_data = << >>
  /\ url_out = None
  /\ qi = 1
  /\ pending = 0
  /\ all_results = << >>
  /\ seen_urls = {}
  /\ issued = << >>
  /\ first_failed = 0
  /\ kept_at_failure = << >>
  /\ occurrences = [u \in Urls |-> 0]
  /\ first_returned = [u \in Urls |-> << >>]
  /\ first_accepted = [u \in Urls |-> << >>]

\* the page before the button is pressed
Init ==
  /\ InitCommon
  /\ pc = "idle"
  /\ fps = NoFingerprints
  /\ target_project \in Projects
  /\ category \in Categories
  /\ input_website \in RunClues
  /\ input_twitter \in RunClues
  /\ web \in RunWebs
  /\ queries = << >>
  /\ url = None

\* a call of auto_detect_fingerprints
InitExtract ==
  /\ InitCommon
  /\ pc = "extract"
  /\ fps = NoFingerprints
  /\ target_project = "" /\ category = "Project"
  /\ input_website \in Clues
  /\ input_twitter \in Clues
  /\ web = {} /\ queries = << >> /\ url = None

\* a call of generate_waterfall_queries
InitPlan ==
  /\ InitCommon
  /\ pc = "plan"
  /\ target_project \in PlanProjects
  /\ category \in Categories
  /\ \E h \in PlanHandles, d \in PlanDomains :
       fps = [twitter_handle |-> h, domain |-> d]
  /\ input_website = "" /\ input_twitter = ""
  /\ web = {} /\ queries = << >> /\ url = None

\* a call of execute_search_layer, after lines 130-131
InitExec ==
  /\ InitCommon
  /\ pc = "loop"
  /\ fps = NoFingerprints
  /\ target_project = "" /\ category = "Project"
  /\ input_website = "" /\ input_twitter = ""
  /\ web = Items
  /\ \E n \in 0..MaxQueries : queries = [i \in 1..n |-> "q" \o ToString(i)]
  /\ url = None

\* a call of normalize_url
InitNorm ==
  /\ InitCommon
  /\ pc = "normalize"
  /\ fps = NoFingerprints
  /\ target_project = "" /\ category = "Project"
  /\ input_website = "" /\ input_twitter = ""
  /\ web = {} /\ queries = << >>
  /\ url \in UrlInputs


(***************************************************************************)
(* Calls of the pure functions                                             *)
(***************************************************************************)

\* line 265 on its own
ExtractCall ==
  /\ pc = "extract"
  /\ fps' = auto_detect_fingerprints(input_website, input_twitter)
  /\ pc' = "extracted"
  /\ UNCHANGED << inputVars, queries, web, execVars, raw_data, ai_result,
                  analyzer_calls, ui, viewVars, normVars, histVars >>

\* line 274 on its own
PlanCall ==
  /\ pc = "plan"
  /\ queries' = generate_waterfall_queries(target_project, category, fps)
  /\ pc' = "planned"
  /\ UNCHANGED << inputVars, fps, web, execVars, raw_data, ai_result,
                  analyzer_calls, ui, viewVars, normVars, histVars >>

\* lines 295, 314 on one value
NormalizeCall ==
  /\ pc = "normalize"
  /\ url_out' = normalize_url(url)
  /\ pc' = "normalized"
  /\ UNCHANGED << inputVars, fps, queries, web, execVars, raw_data, ai_result,
                  analyzer_calls, ui, viewVars, url, histVars >>

(***************************************************************************)
(* execute_search_layer, lines 129-159                                     *)
(***************************************************************************)

\* lines 135-142, 154-155: tavily.search raises on query qi
SearchFails ==
  /\ pc = "loop"
  /\ qi <= Len(queries)
  /\ issued' = Append(issued, queries[qi])
  /\ first_failed' = IF first_failed = 0 THEN qi ELSE first_failed
  /\ kept_at_failure' =
       IF first_failed = 0 THEN all_results ELSE kept_at_failure
  /\ pc' = QueryFailureHandler(qi).pc
  /\ qi' = QueryFailureHandler(qi).qi
  /\ UNCHANGED << inputVars, fps, queries, web, pending, all_results,
                  seen_urls, raw_data, ai_result, analyzer_calls, ui, viewVars,
                  normVars, occurrences, first_returned, first_accepted >>

\* lines 135-144: tavily.search answers query qi with n results (MaxResults
\* stands for the max_results of line 129)
SearchReturns ==
  /\ pc = "loop"
  /\ qi <= Len(queries)
  /\ issued' = Append(issued, queries[qi])
  /\ \E n \in 0..(IF web = {} THEN 0 ELSE MaxResults) : pending' = n
  /\ pc' = "results"
  /\ UNCHANGED << inputVars, fps, queries, web, qi, all_results, seen_urls,
                  raw_data, ai_result, analyzer_calls, ui, viewVars, normVars,
                  first_failed, kept_at_failure, occurrences, first_returned,
                  first_accepted >>

\* lines 144-152: one iteration over the response, on result r
ProcessResult ==
  /\ pc = "results"
  /\ pending > 0
  /\ \E r \in web :
       /\ all_results' = IF Accepted(r, seen_urls)
                         THEN Append(all_results, r) ELSE all_results
       /\ seen_urls' = IF Accepted(r, seen_urls)
                       THEN seen_urls \cup {r.url} ELSE seen_urls
       /\ occurrences' =
            [occurrences EXCEPT ![r.url] = IF @ < 2 THEN @ + 1 ELSE @]
       /\ first_returned' =
            [first_returned EXCEPT ![r.url] = IF @ = << >> THEN << r >> ELSE @]
       /\ first_accepted' =
            [first_accepted EXCEPT
               ![r.url] = IF @ = << >> /\ ~Denylisted(r) THEN << r >> ELSE @]
  /\ pending' = pending - 1
  /\ UNCHANGED << pc, inputVars, fps, queries, web, qi, raw_data, ai_result,
                  analyzer_calls, ui, viewVars, normVars, issued,
                  first_failed, kept_at_failure >>

\* line 144 exhausted: back to the for loop of line 134
EndOfResults ==
  /\ pc = "results"
  /\ pending = 0
  /\ qi' = qi + 1
  /\ pc' = "loop"
  /\ UNCHANGED << inputVars, fps, queries, web, pending, all_results,
                  seen_urls, raw_data, ai_result, analyzer_calls, ui, viewVars,
                  normVars, histVars >>

\* lines 157-159, 275
ExecReturn ==
  /\ pc = "loop"
  /\ qi > Len(queries)
  /\ raw_data' = all_results
  /\ pc' = "executed"
  /\ UNCHANGED << inputVars, fps, queries, web, execVars, ai_result,
                  analyzer_calls, ui, viewVars, normVars, histVars >>

(***************************************************************************)
(* The button handler, lines 259-339                                       *)
(***************************************************************************)

\* lines 259-262
ClickNoProject ==
  /\ pc = "idle"
  /\ target_project = ""
  /\ ui' = ui \cup {"toast_no_project"}
  /\ pc' = "stopped"
  /\ UNCHANGED << inputVars, fps, queries, web, execVars, raw_data, ai_result,
                  analyzer_calls, viewVars, normVars, histVars >>

\* lines 259-275, 130-131
ClickRun ==
  /\ pc = "idle"
  /\ target_project # ""
  /\ fps' = auto_detect_fingerprints(input_website, input_twitter)
  /\ ui' = ui \cup
       {IF Truthy(fps'.twitter_handle) \/ Truthy(fps'.domain)
        THEN "fingerprint_success" ELSE "fingerprint_info"}
  /\ queries' = generate_waterfall_queries(target_project, category, fps')
  /\ all_results' = << >>
  /\ seen_urls' = {}
  /\ qi' = 1
  /\ pc' = "loop"
  /\ UNCHANGED << inputVars, web, pending, raw_data, ai_result,
                  analyzer_calls, viewVars, normVars, histVars >>

\* lines 278-282, 176-232: the reasoning backend answers, or fails
Analyze ==
  /\ pc = "executed"
  /\ HasEvidence(raw_data)
  /\ analyzer_calls' = analyzer_calls + 1
  /\ \E out \in AIResults \cup {NoResult} :
       /\ ai_result' = out
       /\ ui' = IF out = NoResult THEN ui \cup {"ai_error"} ELSE ui
  /\ pc' = "render"
  /\ UNCHANGED << inputVars, fps, queries, web, execVars, raw_data, viewVars,
                  normVars, histVars >>

\* lines 278-284
NoEvidence ==
  /\ pc = "executed"
  /\ ~HasEvidence(raw_data)
  /\ ai_result' = NoResult
  /\ ui' = ui \cup {"no_evidence"}
  /\ pc' = "render"
  /\ UNCHANGED << inputVars, fps, queries, web, execVars, raw_data,
                  analyzer_calls, viewVars, normVars, histVars >>

\* lines 291-295
TeamTable(team) ==
  [i \in 1..Len(team) |->
     [team[i] EXCEPT !.linkedin = normalize_url(@),
                     !.twitter = normalize_url(@)]]

\* lines 312-314
ContactsTable(contacts) ==
  [i \in 1..Len(contacts) |-> [contacts[i] EXCEPT !.value = normalize_url(@)]]

\* lines 329-333
ExportRows(res) ==
  [i \in 1..Len(res.team) |->
     [Type |-> "Person", Name |-> res.team[i].name,
      Desc |-> res.team[i].role, Link |-> res.team[i].linkedin]]
  \o
  [i \in 1..Len(res.contacts) |->
     [Type |-> "Channel", Name |-> res.contacts[i].type,
      Desc |-> res.contacts[i].note, Link |-> res.contacts[i].value]]

\* lines 287-339
RenderResult ==
  /\ pc = "render"
  /\ ai_result.some
  /\ df_team' = TeamTable(ai_result.team)
  /\ df_contacts' = ContactsTable(ai_result.contacts)
  /\ export_data' = ExportRows(ai_result)
  /\ ui' = ui
       \cup (IF ai_result.team # << >> THEN {"team_table"} ELSE {"team_warning"})
       \cup (IF ai_result.contacts # << >> THEN {"contacts_table"} ELSE {})
       \cup (IF export_data' # << >> THEN {"download_button"} ELSE {})
  /\ pc' = "done"
  /\ UNCHANGED << inputVars, fps, queries, web, execVars, raw_data, ai_result,
                  analyzer_calls, normVars, histVars >>

\* line 287 with ai_result None
RenderNothing ==
  /\ pc = "render"
  /\ ~ai_result.some
  /\ pc' = "done"
  /\ UNCHANGED << inputVars, fps, queries, web, execVars, raw_data, ai_result,
                  analyzer_calls, ui, viewVars, normVars, histVars >>

(***************************************************************************)
(* Specifications                                                          *)
(***************************************************************************)

NextExec ==
  \/ SearchFails
  \/ SearchReturns
  \/ ProcessResult
  \/ EndOfResults
  \/ ExecReturn

Next ==
  \/ ClickNoProject
  \/ ClickRun
  \/ SearchFails
  \/ SearchReturns
  \/ ProcessResult
  \/ EndOfResults
  \/ ExecReturn
  \/ Analyze
  \/ NoEvidence
  \/ RenderResult
  \/ RenderNothing

Spec == Init /\ [][Next]_vars
SpecExtract == InitExtract /\ [][ExtractCall]_vars
SpecPlan == InitPlan /\ [][PlanCall]_vars
SpecExec == InitExec /\ [][NextExec]_vars
SpecNorm == InitNorm /\ [][NormalizeCall]_vars


(***************************************************************************)
(* Properties                                                              *)
(***************************************************************************)

\* text contains term, whatever the case of its letters
ContainsIgnoreCase(text, term) ==
  \E i \in 1..(Len(text) - Len(term) + 1) :
    Lower(SubSeq(text, i, i + Len(term) - 1)) = term

\* s begins with the web's protocol scheme
HasScheme(s) == StartsWith(s, "http://") \/ StartsWith(s, "https://")

\* the host a clue names: no surrounding blanks, scheme, "www." or path
HostOfClue(c) ==
  LET s      == Lower(Strip(c))
      rest   == IF Contains(s, "://")
                THEN SubSeq(s, Find(s, "://") + 3, Len(s)) ELSE s
      host   == SplitFirst(SplitFirst(rest, "/"), "?")
  IN  IF StartsWith(host, "www.") THEN SubSeq(host, 5, Len(host)) ELSE host

\* what follows the host in a clue, without the query string
PathOfClue(c) ==
  LET s      == Lower(Strip(c))
      rest   == IF Contains(s, "://")
                THEN SubSeq(s, Find(s, "://") + 3, Len(s)) ELSE s
      noq    == SplitFirst(rest, "?")
  IN  IF Contains(noq, "/") THEN SubSeq(noq, Find(noq, "/"), Len(noq)) ELSE ""

SocialHosts == {"x.com", "twitter.com"}

SocialShaped(c) == HostOfClue(c) \in SocialHosts

DomainShaped(c) ==
  /\ Contains(HostOfClue(c), ".")
  /\ HostOfClue(c) \notin SocialHosts
  /\ ~Contains(Lower(c), "linkedin")

\* a clue with nothing to extract: empty, or the platform host and no handle
NoIdentifier(c) ==
  \/ Strip(c) = ""
  \/ SocialShaped(c) /\ PathOfClue(c) \in {"", "/"}

IsPrefix(a, b) == Len(a) <= Len(b) /\ SubSeq(b, 1, Len(a)) = a

----------------------------------------------------------------------------
\* C1: with one social-link-shaped clue and one domain-shaped clue, the
\* extractor returns the same pair whichever argument holds which clue.
C1_OrderIndependent ==
  ( /\ pc = "extracted"
    /\ \/ SocialShaped(input_website) /\ DomainShaped(input_twitter)
       \/ SocialShaped(input_twitter) /\ DomainShaped(input_website) )
  => fps = auto_detect_fingerprints(input_twitter, input_website)

\* C2: scenario A (clues "https://x.com/Weex_Official" and "weex.com" in
\* either box, project "Weex", category "Exchange") gives the fingerprints
\* {weex_official, weex.com} and 6 queries, the first two holding the handle.
C2_ScenarioA ==
  ( /\ pc \notin {"idle", "stopped"}
    /\ target_project = "Weex"
    /\ category = "Exchange"
    /\ {input_website, input_twitter}
         = {"https://x.com/Weex_Official", "weex.com"} )
  => /\ fps = [twitter_handle |-> Str("weex_official"),
               domain |-> Str("weex.com")]
     /\ Len(queries) = 6
     /\ Contains(queries[1], "weex_official")
     /\ Contains(queries[2], "weex_official")

\* C3: the planner returns Tier 1 (2 queries, iff a handle exists), Tier 1b
\* (1 query, iff a domain exists), Tier 2 (2 queries) and Tier 3 (1 query),
\* in that order: 3 queries without fingerprints, 6 with both.
C3_WaterfallShape ==
  pc = "planned" =>
    LET h  == fps.twitter_handle.t = "str" /\ fps.twitter_handle.v # ""
        d  == fps.domain.t = "str" /\ fps.domain.v # ""
        nH == IF h THEN 2 ELSE 0
        nD == IF d THEN 1 ELSE 0
        anchored == {i \in 1..Len(queries) :
                       StartsWith(queries[i], "site:linkedin.com \"")}
    IN  /\ Len(queries) = nH + nD + 3
        /\ anchored = 1..(nH + nD)
        /\ h => /\ queries[1]
                     = "site:linkedin.com \"@" \o fps.twitter_handle.v \o "\""
                /\ queries[2]
                     = "site:linkedin.com \"" \o fps.twitter_handle.v \o "\""
        /\ d => StartsWith(queries[nH + 1],
                  "site:linkedin.com \"" \o fps.domain.v \o "\" ")
        /\ StartsWith(queries[nH + nD + 1],
             "site:linkedin.com/in/ \"" \o target_project \o "\"")
        /\ StartsWith(queries[nH + nD + 2],
             "site:linkedin.com/company/ \"" \o target_project \o "\"")
        /\ StartsWith(queries[nH + nD + 3], "\"" \o target_project \o "\"")
        /\ (~h /\ ~d) => Len(queries) = 3
        /\ (h /\ d) => Len(queries) = 6

C3_Witness ==
  /\ pc = "planned"
  /\ fps.twitter_handle = Str("weex_official")
  /\ fps.domain = Str("weex.com")
  /\ Len(queries) = 6

NoDuplicateUrls ==
  \A i, j \in 1..Len(all_results) :
    all_results[i].url = all_results[j].url => i = j

\* C4 as stated: no two items of the merged output share a url, and the item
\* kept for a url is the one of its first occurrence.
C4_FirstOccurrenceKept ==
  /\ NoDuplicateUrls
  /\ \A i \in 1..Len(all_results) :
       first_returned[all_results[i].url] = << all_results[i] >>

\* C4 as amended: no two items of the merged output share a url, and the
\* item kept for a url is the one of its first occurrence that the denylist
\* lets through; a url with no such occurrence is not in the output.
C4_FirstAcceptedKept ==
  /\ NoDuplicateUrls
  /\ \A u \in Urls :
       LET kept == {i \in 1..Len(all_results) : all_results[i].url = u} IN
         IF first_accepted[u] = << >>
         THEN kept = {}
         ELSE /\ Cardinality(kept) = 1
              /\ \A i \in kept : << all_results[i] >> = first_accepted[u]

C4_Witness ==
  /\ pc = "executed"
  /\ \E u \in Urls :
       /\ occurrences[u] >= 2
       /\ first_accepted[u] # << >>
       /\ first_returned[u] # first_accepted[u]
       /\ \E i \in 1..Len(raw_data) : << raw_data[i] >> = first_accepted[u]

DenyTerms == {"steak", "restaurant", "menu"}

FoodService(r) ==
  \E term \in DenyTerms : ContainsIgnoreCase(r.title \o r.content, term)

\* C5: at every point of the executor's run, and in what it returns, no
\* accepted item has a title+content that holds a denylisted term in any
\* letter case.
C5_NoDenylistedEvidence ==
  /\ \A i \in 1..Len(all_results) : ~FoodService(all_results[i])
  /\ \A i \in 1..Len(raw_data) : ~FoodService(raw_data[i])

C5_Witness ==
  /\ pc = "executed"
  /\ raw_data # << >>
  /\ \E u \in Urls :
       /\ occurrences[u] >= 2
       /\ first_returned[u] # << >>
       /\ FoodService(first_returned[u][1])
       /\ first_accepted[u] = << >>

\* C6: a query that fails does not end the batch: the step that fails goes
\* on to the next query with the accepted items as they are, no step takes
\* an accepted item away or leaves by an exception, and the function
\* returns the merged list having issued every query in order.
C6_FailureContained ==
  [][ /\ IsPrefix(all_results, all_results')
      /\ pc' # "raised"
      /\ (Len(issued') > Len(issued) /\ pc' # "results") =>
           (pc' = "loop" /\ qi' = qi + 1 /\ all_results' = all_results)
      /\ pc' = "executed" =>
           (issued' = queries /\ raw_data' = all_results') ]_vars

C6_Witness ==
  /\ pc = "executed"
  /\ first_failed > 0
  /\ first_failed < Len(queries)
  /\ kept_at_failure # << >>
  /\ IsPrefix(kept_at_failure, raw_data)
  /\ Len(raw_data) > Len(kept_at_failure)
  /\ issued = queries

\* C7: normalize_url gives absent for None, non-strings, empty values,
\* values shorter than 5 characters and values holding "none" or "n/a";
\* otherwise the value, prefixed with "https://" when it has no scheme; so
\* an output begins with a scheme, and normalizing it again changes nothing.
\* (The value is read without the blanks around it.)
C7_NormalizerMapping ==
  pc = "normalized" =>
    LET v      == Strip(url.v)
        absent == \/ url.t # "str"
                  \/ v = ""
                  \/ Len(v) < 5
                  \/ ContainsIgnoreCase(v, "none")
                  \/ ContainsIgnoreCase(v, "n/a")
    IN  /\ absent => url_out = None
        /\ ~absent => url_out = IF HasScheme(v) THEN Str(v)
                                ELSE Str("https://" \o v)
        /\ url_out # None => HasScheme(url_out.v)
        /\ normalize_url(url_out) = url_out

\* C8: when the search batch yields no evidence, the analyzer is never
\* called, the page reports the empty-evidence state and not an analyzer
\* error, and no table or export is produced.
C8_EmptyEvidenceShortCircuit ==
  (pc \in {"render", "done"} /\ raw_data = << >>) =>
    /\ analyzer_calls = 0
    /\ "no_evidence" \in ui
    /\ "ai_error" \notin ui
    /\ ui \cap {"team_table", "team_warning", "contacts_table",
                "download_button"} = {}
    /\ df_team = << >> /\ df_contacts = << >> /\ export_data = << >>

C8_Witness ==
  /\ pc = "done"
  /\ raw_data = << >>
  /\ "no_evidence" \in ui
  /\ \E u \in Urls : occurrences[u] > 0

\* C9: when neither clue has an identifier to extract (each is empty, or
\* the bare platform host with or without a trailing slash), the extractor
\* leaves both fields without a value.
C9_NoCorruptFingerprint ==
  ( /\ pc = "extracted"
    /\ NoIdentifier(input_website)
    /\ NoIdentifier(input_twitter) )
  => ~Truthy(fps.twitter_handle) /\ ~Truthy(fps.domain)

WellFormedLink(l) == l = None \/ (l.t = "str" /\ HasScheme(l.v))

\* C10: every linkedin, twitter and value field that reaches a rendered
\* table or an exported row is absent or a URL that begins with a scheme.
C10_NormalizedEverywhere ==
  pc = "done" =>
    /\ \A i \in 1..Len(df_team) :
         WellFormedLink(df_team[i].linkedin) /\ WellFormedLink(df_team[i].twitter)
    /\ \A i \in 1..Len(df_contacts) : WellFormedLink(df_contacts[i].value)
    /\ \A i \in 1..Len(export_data) : WellFormedLink(export_data[i].Link)

=============================================================================
